---- MODULE Spec2Model ----
(***************************************************************************)
(* Model of packages/cli/src/middlewares/externalJWTAuth.ts:               *)
(* setupExternalJWTAuth and the request middleware it registers.           *)
(*                                                                         *)
(* Text that the code inspects character by character (header values, the  *)
(* header value prefix, JSON string values) is a sequence of one-character *)
(* strings.  Names that the code only compares as a whole (header name,    *)
(* cookie name, claim names, kid) are TLA+ strings.  A compact JWT         *)
(* serialisation (three dot-separated base64url parts, no whitespace) is   *)
(* written as one symbol of the text, a name of JwtTable.                  *)
(*                                                                         *)
(* jsonwebtoken (verify, 9.x) and jwks-rsa (getSigningKey) are libraries;  *)
(* their documented behaviour is modelled by Verify*, GetSigningKey*.      *)
(***************************************************************************)
EXTENDS Integers, Sequences, FiniteSets, TLC

\* Number of requests the application receives.
NumReq == 2
\* Longest header value and longest prefix explored for prefix stripping.
MaxLen == 4
MaxPrefixLen == 2

Req == 1..NumReq

VARIABLES config, app, middlewares, now, req, clientCache, fetched, failed,
          raced

vars == <<config, app, middlewares, now, req, clientCache, fetched, failed,
          raced>>

-----------------------------------------------------------------------------
(* JSON values of a decoded payload.  An object is the sequence of its     *)
(* <<name, value>> entries in property order.                              *)

JNull == [t |-> "null"]
JNum(n) == [t |-> "num", n |-> n]
JStr(s) == [t |-> "str", s |-> s]
JArr(a) == [t |-> "arr", a |-> a]
JObj(o) == [t |-> "obj", o |-> o]

\* Object.entries(v): own enumerable string-keyed properties.  A string
\* yields its characters under index keys, an array its elements, a number
\* nothing; null (or undefined) raises a TypeError.
ObjectEntries(v) ==
  CASE v.t = "obj" -> [throws |-> FALSE, entries |-> v.o]
    [] v.t = "str" -> [throws |-> FALSE,
                       entries |-> [i \in 1..Len(v.s) |->
                                      <<ToString(i - 1), JStr(<<v.s[i]>>)>>]]
    [] v.t = "arr" -> [throws |-> FALSE,
                       entries |-> [i \in 1..Len(v.a) |->
                                      <<ToString(i - 1), v.a[i]>>]]
    [] v.t = "num" -> [throws |-> FALSE, entries |-> <<>>]
    [] OTHER -> [throws |-> TRUE, entries |-> <<>>]

\* payload.name, or absent
HasClaim(payload, name) == \E i \in 1..Len(payload) : payload[i][1] = name
Claim(payload, name) ==
  payload[CHOOSE i \in 1..Len(payload) : payload[i][1] = name][2]

-----------------------------------------------------------------------------
(* Text helpers: String.prototype.startsWith, replace (string pattern,     *)
(* first occurrence), trimStart.                                           *)

StartsWith(s, p) == Len(p) <= Len(s) /\ SubSeq(s, 1, Len(p)) = p

\* index of the first occurrence of pat in s, 0 when there is none
IndexOf(s, pat) ==
  LET hits == {i \in 1..(Len(s) - Len(pat) + 1) :
                 SubSeq(s, i, i + Len(pat) - 1) = pat}
  IN IF hits = {} THEN 0 ELSE CHOOSE i \in hits : \A j \in hits : i <= j

\* s.replace(pat, '')
ReplaceFirst(s, pat) ==
  LET i == IndexOf(s, pat)
  IN IF i = 0 THEN s
     ELSE SubSeq(s, 1, i - 1) \o SubSeq(s, i + Len(pat), Len(s))

RECURSIVE TrimStart(_)
TrimStart(s) ==
  IF s # <<>> /\ Head(s) = " " THEN TrimStart(Tail(s)) ELSE s

RECURSIVE Join(_)
\* the JavaScript string made of the characters of s
Join(s) == IF s = <<>> THEN "" ELSE Head(s) \o Join(Tail(s))

-----------------------------------------------------------------------------
(* The remote key set and the tokens presented to the gate.                *)

\* kid -> public key served by the JWKS endpoint
JwksKeys == [k1 |-> "K1"]
Kids == {"k1", "k2"}

Payload(exp, iss, ns) ==
  <<<<"exp", JNum(exp)>>, <<"iss", JStr(iss)>>>> \o ns

Ns(v) == <<<<"ns", v>>>>
Tenant(k, v) == JObj(<<<<k, JStr(v)>>>>)

\* header.kid ("" when the header has none), the key that produced the
\* signature ("none" for an unsigned token) and the payload.
Jwt(kid, signedBy, payload) ==
  [kid |-> kid, signedBy |-> signedBy, payload |-> payload]

JwtTable ==
  [ jGood    |-> Jwt("k1", "K1", Payload(2, <<"i">>, Ns(Tenant("tid", <<"t">>)))),
    jExpired |-> Jwt("k1", "K1", Payload(0, <<"i">>, Ns(Tenant("tid", <<"t">>)))),
    jExpBad  |-> Jwt("k1", "KX", Payload(0, <<"i">>, Ns(Tenant("tid", <<"t">>)))),
    jBadSig  |-> Jwt("k1", "KX", Payload(2, <<"i">>, Ns(Tenant("tid", <<"t">>)))),
    jNoKid   |-> Jwt("",   "K1", Payload(2, <<"i">>, Ns(Tenant("tid", <<"t">>)))),
    jNoKidIs |-> Jwt("",   "K1", Payload(2, <<"j">>, Ns(Tenant("tid", <<"t">>)))),
    jUnknown |-> Jwt("k2", "K2", Payload(2, <<"i">>, Ns(Tenant("tid", <<"t">>)))),
    jNoSig   |-> Jwt("k1", "none", Payload(2, <<"i">>, Ns(Tenant("tid", <<"t">>)))),
    jIssuer  |-> Jwt("k1", "K1", Payload(2, <<"j">>, Ns(Tenant("tid", <<"t">>)))),
    jNoNs    |-> Jwt("k1", "K1", Payload(2, <<"i">>, <<>>)),
    jOther   |-> Jwt("k1", "K1", Payload(2, <<"i">>, Ns(Tenant("tid", <<"T">>)))),
    jLonger  |-> Jwt("k1", "K1", Payload(2, <<"i">>, Ns(Tenant("tid", <<"t", "t">>)))),
    jKeyCase |-> Jwt("k1", "K1", Payload(2, <<"i">>,
                     <<<<"NS", Tenant("tid", <<"t">>)>>,
                       <<"ns", Tenant("TID", <<"t">>)>>>>)),
    jNsStr   |-> Jwt("k1", "K1", Payload(2, <<"i">>, Ns(JStr(<<"t">>)))),
    jNsArr   |-> Jwt("k1", "K1", Payload(2, <<"i">>, Ns(JArr(<<JStr(<<"t">>)>>)))),
    jNsNum   |-> Jwt("k1", "K1", Payload(2, <<"i">>, Ns(JNum(5)))),
    jNsNull  |-> Jwt("k1", "K1", Payload(2, <<"i">>, Ns(JNull))) ]

JwtNames == DOMAIN JwtTable

-----------------------------------------------------------------------------
(* Configuration read by setupExternalJWTAuth.                             *)

Config(h, c, u, p, i, n, k, t) ==
  [jwtAuthHeader |-> h, jwtAuthCookie |-> c, jwksUri |-> u,
   jwtHeaderValuePrefix |-> p, jwtIssuer |-> i, jwtNamespace |-> n,
   jwtAllowedTenantKey |-> k, jwtAllowedTenant |-> t]

Configs ==
  { Config("h", "",  "u", <<"B">>, <<"i">>, "ns", "tid", <<"t">>),
    Config("h", "c", "u", <<>>,    <<>>,    "ns", "0",   <<"t">>),
    Config("",  "c", "u", <<"B">>, <<>>,    "",   "",    <<>>),
    Config("h", "",  "u", <<>>,    <<"i">>, "ns", "tid", <<>>),
    Config("h", "c", "u", <<"B">>, <<>>,    "",   "tid", <<"t">>),
    Config("",  "c", "u", <<>>,    <<"i">>, "ns", "",    <<"t">>),
    Config("",  "",  "u", <<>>,    <<>>,    "",   "",    <<>>),
    Config("h", "",  "",  <<>>,    <<>>,    "",   "",    <<>>) }

\* what one request brings: whether its URL matches authIgnoreRegex, the
\* value of the configured header and of the configured cookie
Absent == [present |-> FALSE, value |-> <<>>]
Value(v) == [present |-> TRUE, value |-> v]
Input(e, h, c) == [exempt |-> e, header |-> h, cookie |-> c]

TokenValues ==
  {<<j>> : j \in JwtNames}
    \cup {<<"B", " ", "jGood">>, <<"B", " ", "jNsStr">>, <<"B", "jGood">>,
          <<"B", " ">>, <<"x">>}

Inputs ==
  {Input(FALSE, Value(v), Absent) : v \in TokenValues \cup {<<>>}}
    \cup {Input(FALSE, Absent, Value(v)) :
            v \in {<<"jGood">>, <<"jExpired">>, <<"jNsArr">>, <<>>}}
    \cup {Input(e, Absent, Absent) : e \in BOOLEAN}
    \cup {Input(TRUE, Value(<<"jExpired">>), Absent),
          Input(FALSE, Value(<<"jExpired">>), Value(<<"jGood">>))}

-----------------------------------------------------------------------------
(* Per-request record: position, inputs, how the key-set fetch made for it *)
(* ended ("none" while there is none), the local variable token, the       *)
(* options handed to jwt.verify (<<>> before the call), the ordered log of *)
(* what the middleware did for the request, the reasons                    *)
(* passed to the rejection helper, the calls of next() and whether an      *)
(* exception left the middleware.                                          *)

Idle ==
  [pc |-> "idle", in |-> Input(FALSE, Absent, Absent), fetch |-> "none",
   token |-> <<>>, options |-> <<>>, log |-> <<>>, reasons |-> <<>>, nexts |-> 0,
   thrown |-> "none"]

Did(st, e) == [st EXCEPT !.log = Append(@, e)]

\* next()
CallNext(st) == [Did(st, "next") EXCEPT !.nexts = @ + 1]

\* jwtAuthAuthorizationError(res, message): the rejection response
JwtAuthAuthorizationError(st, message) ==
  [Did(st, "reject") EXCEPT !.reasons = Append(@, message)]

\* an exception leaving the middleware ("sync") or a callback ("async")
Throw(st, how) == [Did(st, "throw") EXCEPT !.thrown = how]

-----------------------------------------------------------------------------
(* isTenantAllowed: "true", "false", or "TypeError" when Object.entries is *)
(* applied to null.                                                        *)

RECURSIVE InnerEntries(_, _, _)
InnerEntries(cfg, entries, i) ==
  IF i > Len(entries) THEN FALSE
  ELSE IF entries[i][1] = cfg.jwtAllowedTenantKey
          /\ entries[i][2] = JStr(cfg.jwtAllowedTenant)
       THEN TRUE
       ELSE InnerEntries(cfg, entries, i + 1)

RECURSIVE OuterEntries(_, _, _)
OuterEntries(cfg, decoded, i) ==
  IF i > Len(decoded) THEN "false"
  ELSE IF decoded[i][1] = cfg.jwtNamespace
       THEN LET e == ObjectEntries(decoded[i][2])
            IN IF e.throws THEN "TypeError"
               ELSE IF InnerEntries(cfg, e.entries, 1) THEN "true"
                    ELSE OuterEntries(cfg, decoded, i + 1)
       ELSE OuterEntries(cfg, decoded, i + 1)

\* faulty variant: the check is skipped only when all three settings are empty
TenantCheckDisabledAll(cfg) ==
  cfg.jwtNamespace = "" /\ cfg.jwtAllowedTenantKey = ""
    /\ cfg.jwtAllowedTenant = <<>>

TenantCheckDisabled(cfg) ==
  cfg.jwtNamespace = "" \/ cfg.jwtAllowedTenantKey = ""
    \/ cfg.jwtAllowedTenant = <<>>

IsTenantAllowed(cfg, decoded) ==
  IF TenantCheckDisabled(cfg) THEN "true" ELSE OuterEntries(cfg, decoded, 1)

-----------------------------------------------------------------------------
(* The synchronous part of the middleware.                                 *)

\* faulty variant: the exemption is honoured only for requests without a header
AuthIgnoredWithoutHeader(in) == in.exempt /\ ~in.header.present

AuthIgnored(in) == in.exempt

\* faulty variant: the cookie is the fallback of a missing header
ExtractWithFallback(cfg, in) ==
  IF cfg.jwtAuthHeader # "" /\ in.header.present /\ in.header.value # <<>>
  THEN in.header ELSE in.cookie

\* token = jwtAuthHeader ? req.header(jwtAuthHeader) : req.cookies?.[jwtAuthCookie]
Extract(cfg, in) ==
  IF cfg.jwtAuthHeader # "" THEN in.header ELSE in.cookie

\* faulty variant: only an undefined token counts as missing
MissingTokenUndefinedOnly(tok) == ~tok.present

MissingToken(tok) == ~tok.present \/ tok.value = <<>>

StripPrefix(token, prefix) ==
  IF prefix # <<>> /\ StartsWith(token, prefix)
  THEN TrimStart(ReplaceFirst(token, prefix \o <<" ">>))
  ELSE token

\* faulty variant: the configured issuer is not handed to verify
JwtVerifyOptionsNoIssuer(cfg) ==
  [issuer |-> <<>>, ignoreExpiration |-> FALSE]

\* faulty variant: expiration is not enforced
JwtVerifyOptionsIgnoreExpiration(cfg) ==
  [issuer |-> cfg.jwtIssuer, ignoreExpiration |-> TRUE]

JwtVerifyOptions(cfg) ==
  [issuer |-> cfg.jwtIssuer, ignoreExpiration |-> FALSE]

\* jsonwebtoken verify, before the key is asked for: "" when the token has
\* three parts and decodes, else the message of the error
VerifyDecode(token) ==
  IF token = <<>> THEN "jwt must be provided"
  ELSE IF Len(token) = 1 /\ token[1] \in JwtNames THEN ""
       ELSE "jwt malformed"

\* faulty variant: the signature is not compared with the key
VerifyWithKeyAnySignature(jwt, key, options, clock) ==
  LET hasSignature == jwt.signedBy # "none"
      payload == jwt.payload
  IN IF ~hasSignature /\ key # "" THEN "jwt signature is required"
     ELSE IF hasSignature /\ key = ""
          THEN "secret or public key must be provided"
     ELSE IF ~hasSignature
          THEN "please specify \"none\" in \"algorithms\" to verify unsigned tokens"
     ELSE IF HasClaim(payload, "exp") /\ ~options.ignoreExpiration
             /\ clock >= Claim(payload, "exp").n
          THEN "jwt expired"
     ELSE IF options.issuer # <<>>
             /\ (~HasClaim(payload, "iss")
                   \/ Claim(payload, "iss") # JStr(options.issuer))
          THEN "jwt issuer invalid. expected: " \o Join(options.issuer)
     ELSE ""

\* jsonwebtoken verify, once getKey has called back with (no error) key;
\* key "" is undefined.  The message of the error, "" on success.
VerifyWithKey(jwt, key, options, clock) ==
  LET hasSignature == jwt.signedBy # "none"
      payload == jwt.payload
  IN IF ~hasSignature /\ key # "" THEN "jwt signature is required"
     ELSE IF hasSignature /\ key = ""
          THEN "secret or public key must be provided"
     ELSE IF ~hasSignature
          THEN "please specify \"none\" in \"algorithms\" to verify unsigned tokens"
     ELSE IF jwt.signedBy # key THEN "invalid signature"
     ELSE IF HasClaim(payload, "exp") /\ ~options.ignoreExpiration
             /\ clock >= Claim(payload, "exp").n
          THEN "jwt expired"
     ELSE IF options.issuer # <<>>
             /\ (~HasClaim(payload, "iss")
                   \/ Claim(payload, "iss") # JStr(options.issuer))
          THEN "jwt issuer invalid. expected: " \o Join(options.issuer)
     ELSE ""

\* the callback given to jwt.verify
VerifyCallback(cfg, st, error, decoded) ==
  LET s1 == Did(st, "verifyCallback")
  IN IF error # ""
     THEN JwtAuthAuthorizationError(s1, "Invalid token: " \o error)
     ELSE LET allowed == IsTenantAllowed(cfg, decoded)
              s2 == Did(s1, "isTenantAllowed")
          IN IF allowed = "TypeError" THEN Throw(s2, "async")
             ELSE IF allowed = "false"
                  THEN JwtAuthAuthorizationError(s2, "Tenant not allowed")
                  ELSE CallNext(s2)

\* the inner function jsonwebtoken hands to getKey as callbackFn
SecretCallback(cfg, st, err, key, clock) ==
  LET jwt == JwtTable[st.token[1]]
  IN IF err # ""
     THEN VerifyCallback(cfg, Did(st, "keyError"),
            "error in secret or public key callback: " \o err, <<>>)
     ELSE VerifyCallback(cfg, Did(st, "keyDelivered"),
            VerifyWithKey(jwt, key, st.options, clock),
            jwt.payload)

\* the callback getKey gives to jwkClient.getSigningKey
GetKeyCallback(cfg, st, error, key, clock) ==
  LET s1 == IF error # "" THEN SecretCallback(cfg, st, error, "", clock)
            ELSE st
  IN IF s1.thrown # "none" THEN s1
     ELSE SecretCallback(cfg, s1, "", key, clock)

-----------------------------------------------------------------------------
(* State.                                                                   *)

Init ==
  /\ config \in Configs
  /\ app = "new"
  /\ middlewares = 0
  /\ now = 1
  /\ req = [r \in Req |-> Idle]
  /\ clientCache = [r \in Req |-> {}]
  /\ fetched = [k \in Kids |-> 0]
  /\ failed = [k \in Kids |-> 0]
  /\ raced = [k \in Kids |-> FALSE]

\* faulty variant: the JWK Set URI is not validated
SetupExternalJWTAuthAnyUri ==
  /\ app = "new"
  /\ IF config.jwtAuthHeader = "" /\ config.jwtAuthCookie = ""
     THEN app' = "failed" /\ UNCHANGED middlewares
     ELSE app' = "registered" /\ middlewares' = middlewares + 1
  /\ UNCHANGED <<config, now, req, clientCache, fetched, failed, raced>>

\* setupExternalJWTAuth(app, config, authIgnoreRegex)
SetupExternalJWTAuth ==
  /\ app = "new"
  /\ IF config.jwtAuthHeader = "" /\ config.jwtAuthCookie = ""
     THEN app' = "failed" /\ UNCHANGED middlewares
     ELSE IF config.jwksUri = ""
          THEN app' = "failed" /\ UNCHANGED middlewares
          ELSE app' = "registered" /\ middlewares' = middlewares + 1
  /\ UNCHANGED <<config, now, req, clientCache, fetched, failed, raced>>

\* the middleware, up to its return
Middleware(r, in) ==
  /\ app = "registered"
  /\ req[r].pc = "idle"
  /\ \A q \in Req : q < r => req[q].pc # "idle"
  /\ LET s0 == Did([Idle EXCEPT !.in = in], "exemptCheck")
         tok == Extract(config, in)
         s1 == Did(s0, "extract")
         token == StripPrefix(tok.value, config.jwtHeaderValuePrefix)
         s2 == [Did(s1, "stripPrefix") EXCEPT !.token = token]
         s3 == [Did(Did(s2, "jwksClient"), "verify")
                  EXCEPT !.options = JwtVerifyOptions(config)]
         malformed == VerifyDecode(token)
         s4 == Did(s3, "getKey")
         kid == JwtTable[token[1]].kid
     IN IF AuthIgnored(in)
        THEN /\ req' = [req EXCEPT ![r] = [CallNext(s0) EXCEPT !.pc = "done"]]
             /\ UNCHANGED <<clientCache, fetched, raced>>
        ELSE IF MissingToken(tok)
        THEN /\ req' = [req EXCEPT ![r] =
                  [JwtAuthAuthorizationError(s1, "Missing token")
                     EXCEPT !.pc = "done"]]
             /\ UNCHANGED <<clientCache, fetched, raced>>
        ELSE IF malformed # ""
        THEN /\ req' = [req EXCEPT ![r] =
                  [VerifyCallback(config, s3, malformed, <<>>)
                     EXCEPT !.pc = "done"]]
             /\ clientCache' = [clientCache EXCEPT ![r] = {}]
             /\ UNCHANGED <<fetched, raced>>
        ELSE IF kid = ""
        THEN /\ req' = [req EXCEPT ![r] =
                  [Throw(JwtAuthAuthorizationError(s4, "No JWT key found"),
                         "sync") EXCEPT !.pc = "done"]]
             /\ clientCache' = [clientCache EXCEPT ![r] = {}]
             /\ UNCHANGED <<fetched, raced>>
        ELSE /\ req' = [req EXCEPT ![r] =
                  [Did(s4, "getSigningKey") EXCEPT !.pc = "fetching"]]
             /\ clientCache' = [clientCache EXCEPT ![r] = {}]
             /\ fetched' = [fetched EXCEPT ![kid] = @ + 1]
             /\ raced' = [raced EXCEPT ![kid] =
                  @ \/ \E q \in Req \ {r} :
                         /\ req[q].pc = "fetching"
                         /\ JwtTable[req[q].token[1]].kid = kid]
  /\ UNCHANGED <<config, app, middlewares, now, failed>>

\* faulty variant: token is one variable shared by all requests, so the
\* callback verifies the token of the request that arrived last
GetSigningKeyCallbackSharedToken(r, fetchOk) ==
  /\ req[r].pc = "fetching"
  /\ LET last == CHOOSE q \in Req :
                   /\ req[q].pc # "idle"
                   /\ \A p \in Req : req[p].pc # "idle" => p <= q
         shared == IF Len(req[last].token) = 1
                      /\ req[last].token[1] \in JwtNames
                   THEN req[last].token ELSE req[r].token
         kid == JwtTable[req[r].token[1]].kid
         error == IF ~fetchOk THEN "fetch failed"
                  ELSE IF kid \notin DOMAIN JwksKeys
                       THEN "Unable to find a signing key that matches '"
                              \o kid \o "'"
                       ELSE ""
         key == IF error = "" THEN JwksKeys[kid] ELSE ""
         st == GetKeyCallback(config, [req[r] EXCEPT !.token = shared],
                              error, key, now)
     IN /\ req' = [req EXCEPT ![r] =
             [st EXCEPT !.pc = "done", !.token = req[r].token,
                        !.fetch = IF fetchOk THEN "answered" ELSE "failed"]]
        /\ clientCache' = [clientCache EXCEPT ![r] =
             IF error = "" THEN @ \cup {kid} ELSE @]
        /\ failed' = [failed EXCEPT ![kid] = IF error = "" THEN @ ELSE @ + 1]
  /\ UNCHANGED <<config, app, middlewares, now, fetched, raced>>

\* jwkClient.getSigningKey calls back: the fetch failed, or the key set
\* arrived and holds the kid or does not
GetSigningKeyCallback(r, fetchOk) ==
  /\ req[r].pc = "fetching"
  /\ LET kid == JwtTable[req[r].token[1]].kid
         error == IF ~fetchOk THEN "fetch failed"
                  ELSE IF kid \notin DOMAIN JwksKeys
                       THEN "Unable to find a signing key that matches '"
                              \o kid \o "'"
                       ELSE ""
         key == IF error = "" THEN JwksKeys[kid] ELSE ""
     IN /\ req' = [req EXCEPT ![r] =
             [GetKeyCallback(config, req[r], error, key, now)
                EXCEPT !.pc = "done",
                       !.fetch = IF fetchOk THEN "answered" ELSE "failed"]]
        /\ clientCache' = [clientCache EXCEPT ![r] =
             IF error = "" THEN @ \cup {kid} ELSE @]
        /\ failed' = [failed EXCEPT ![kid] = IF error = "" THEN @ ELSE @ + 1]
  /\ UNCHANGED <<config, app, middlewares, now, fetched, raced>>

Next ==
  \/ SetupExternalJWTAuth
  \/ \E r \in Req, in \in Inputs : Middleware(r, in)
  \/ \E r \in Req, fetchOk \in BOOLEAN : GetSigningKeyCallback(r, fetchOk)

Spec == Init /\ [][Next]_vars

-----------------------------------------------------------------------------
(* Prefix stripping over every short header value: the application is set  *)
(* up with a header name and any short prefix, and one request arrives.    *)

Alphabet == {"B", " ", "x"}
Texts(n) == UNION {[1..k -> Alphabet] : k \in 0..n}

InitStrip ==
  /\ config \in {Config("h", "", "u", p, <<>>, "", "", <<>>) :
                   p \in Texts(MaxPrefixLen)}
  /\ app = "registered"
  /\ middlewares = 1
  /\ now = 1
  /\ req = [r \in Req |-> Idle]
  /\ clientCache = [r \in Req |-> {}]
  /\ fetched = [k \in Kids |-> 0]
  /\ failed = [k \in Kids |-> 0]
  /\ raced = [k \in Kids |-> FALSE]

NextStrip ==
  \E v \in Texts(MaxLen) : Middleware(1, Input(FALSE, Value(v), Absent))

SpecStrip == InitStrip /\ [][NextStrip]_vars

-----------------------------------------------------------------------------
(* Vocabulary of the properties.                                           *)

Done(r) == req[r].pc = "done"
Handled(r) == req[r].pc # "idle"
Has(log, e) == \E i \in 1..Len(log) : log[i] = e
Admitted(r) == req[r].nexts = 1 /\ req[r].reasons = <<>>

\* the value of the configured token source of request r
Presented(r) ==
  IF config.jwtAuthHeader = "" THEN req[r].in.cookie ELSE req[r].in.header

\* the token request r handed to verification is a well-formed JWT
IsJwt(r) == Len(req[r].token) = 1 /\ req[r].token[1] \in JwtNames
JwtOf(r) == JwtTable[req[r].token[1]]

ExpiredJwt(j) == Claim(j.payload, "exp").n <= now

\* correctly signed by the key the endpoint serves for its kid, unexpired,
\* and of the expected issuer when one is configured
ValidJwt(j) ==
  /\ j.kid \in DOMAIN JwksKeys
  /\ j.signedBy = JwksKeys[j.kid]
  /\ ~ExpiredJwt(j)
  /\ config.jwtIssuer # <<>> => Claim(j.payload, "iss") = JStr(config.jwtIssuer)

\* request r is finished, was not exempt, and its token verified
Verified(r) ==
  /\ Done(r) /\ ~req[r].in.exempt /\ IsJwt(r)
  /\ ValidJwt(JwtOf(r))
  /\ Has(req[r].log, "keyDelivered") /\ ~Has(req[r].log, "keyError")

TenantConfigured ==
  /\ config.jwtNamespace # ""
  /\ config.jwtAllowedTenantKey # ""
  /\ config.jwtAllowedTenant # <<>>

\* the payload has a top-level claim named jwtNamespace whose value is a
\* mapping with an entry jwtAllowedTenantKey -> jwtAllowedTenant
MappingHasTenant(payload) ==
  \E i \in 1..Len(payload) :
    /\ payload[i][1] = config.jwtNamespace
    /\ payload[i][2].t = "obj"
    /\ \E n \in 1..Len(payload[i][2].o) :
         /\ payload[i][2].o[n][1] = config.jwtAllowedTenantKey
         /\ payload[i][2].o[n][2] = JStr(config.jwtAllowedTenant)

-----------------------------------------------------------------------------
\* C1: a non-exempt request whose token carries an expiration claim in the
\* past is never passed to next() and, once handled, has been rejected,
\* whatever its signature; verify is always called with ignoreExpiration
\* false.
C1_ExpiredRejected ==
  \A r \in Req :
    /\ Has(req[r].log, "verify") => ~req[r].options.ignoreExpiration
    /\ (~req[r].in.exempt /\ IsJwt(r) /\ ExpiredJwt(JwtOf(r)))
         => /\ req[r].nexts = 0
            /\ Done(r) => req[r].reasons # <<>>

\* an expired token with a good signature whose key was delivered is
\* rejected as expired
C1_Witness ==
  \E r \in Req :
    /\ Done(r) /\ req[r].token = <<"jExpired">>
    /\ Has(req[r].log, "keyDelivered")
    /\ req[r].reasons = <<"Invalid token: jwt expired">>

\* C2: with namespace key, tenant key and allowed tenant all set, a verified
\* token is admitted iff its namespace claim is a mapping holding the entry
\* tenant key -> allowed tenant, and is rejected with "Tenant not allowed"
\* in every other case.
C2_TenantIff ==
  TenantConfigured =>
    \A r \in Req :
      Verified(r) =>
        IF MappingHasTenant(JwtOf(r).payload)
        THEN Admitted(r)
        ELSE req[r].reasons = <<"Tenant not allowed">> /\ req[r].nexts = 0

\* C3: when one of namespace key, tenant key, allowed tenant is empty,
\* every call of isTenantAllowed returns true, whatever the claim set, and
\* every verified token is admitted.
C3_CheckDisabledAdmits ==
  ~TenantConfigured =>
    \A r \in Req :
      (Verified(r) \/ Has(req[r].log, "isTenantAllowed"))
        => Admitted(r) /\ req[r].thrown = "none"

\* a verified token whose namespace claim is null is admitted under a
\* partially set tenant configuration
C3_Witness ==
  /\ ~TenantConfigured
  /\ config.jwtNamespace # ""
  /\ \E r \in Req :
       Verified(r) /\ req[r].token = <<"jNsNull">> /\ req[r].nexts = 1

\* C4: a non-exempt request whose token source yields nothing or the empty
\* string is rejected with "Missing token" before prefix stripping, key
\* resolution, verification or the tenant check.
C4_MissingToken ==
  \A r \in Req :
    (Handled(r) /\ ~req[r].in.exempt
       /\ (~Presented(r).present \/ Presented(r).value = <<>>))
      => /\ Done(r)
         /\ req[r].reasons = <<"Missing token">>
         /\ req[r].nexts = 0
         /\ req[r].log = <<"exemptCheck", "extract", "reject">>

\* a request whose header is present but empty was rejected as missing
C4_Witness ==
  \E r \in Req :
    /\ Done(r) /\ ~req[r].in.exempt
    /\ config.jwtAuthHeader # ""
    /\ req[r].in.header = Value(<<>>)
    /\ req[r].reasons = <<"Missing token">>

\* C5: a request whose URL matches the exemption pattern is admitted and
\* nothing else is done for it, whatever token it carries.
C5_ExemptAdmitted ==
  \A r \in Req :
    (Handled(r) /\ req[r].in.exempt)
      => /\ Done(r)
         /\ req[r].log = <<"exemptCheck", "next">>
         /\ Admitted(r)
         /\ req[r].token = <<>>
         /\ req[r].thrown = "none"

\* an exempt request carrying an expired token in the header was admitted
C5_Witness ==
  \E r \in Req :
    /\ Done(r) /\ req[r].in.exempt
    /\ config.jwtAuthHeader # ""
    /\ req[r].in.header = Value(<<"jExpired">>)
    /\ req[r].nexts = 1

\* the stages of one request, in pipeline order
StageRank(e) ==
  CASE e = "exemptCheck" -> 1
    [] e = "extract" -> 2
    [] e = "stripPrefix" -> 3
    [] e \in {"jwksClient", "verify", "getKey", "getSigningKey",
              "keyError", "keyDelivered"} -> 4
    [] e = "verifyCallback" -> 5
    [] e = "isTenantAllowed" -> 6
    [] OTHER -> 0

IsStage(e) == StageRank(e) > 0

KeyLookupReasons ==
  {"No JWT key found",
   "Invalid token: error in secret or public key callback: fetch failed",
   "Invalid token: error in secret or public key callback: "
     \o "Unable to find a signing key that matches 'k2'"}

\* C6: the stages of a request run in pipeline order, the first failing
\* stage produces the one rejection, and no stage runs after it; after a
\* key-resolution failure neither the verify callback nor isTenantAllowed
\* runs.
C6_ShortCircuit ==
  \A r \in Req :
    LET log == req[r].log
    IN /\ \A i, j \in 1..Len(log) :
            (i < j /\ IsStage(log[i]) /\ IsStage(log[j]))
              => StageRank(log[i]) <= StageRank(log[j])
       /\ \A i, j \in 1..Len(log) :
            (i < j /\ log[i] = "reject")
              => ~IsStage(log[j]) /\ log[j] \notin {"reject", "next"}
       /\ \A i, j \in 1..Len(log) :
            (i < j /\ log[i] = "keyError")
              => log[j] \notin {"verifyCallback", "isTenantAllowed"}

\* C7: a token without kid, a failed key-set fetch and an unknown kid each
\* end in a rejection and never in an admission, and once the failure has
\* been reported no key is delivered to verification.
C7_KeyFailureTerminal ==
  \A r \in Req :
    LET log == req[r].log
    IN /\ (Done(r) /\ ~req[r].in.exempt /\ IsJwt(r) /\ JwtOf(r).kid = "")
            => req[r].reasons # <<>> /\ req[r].nexts = 0
       /\ Has(log, "keyError")
            => /\ req[r].reasons # <<>> /\ req[r].nexts = 0
               /\ \A i, j \in 1..Len(log) :
                    (i < j /\ log[i] = "keyError") => log[j] # "keyDelivered"

\* C8: unless requests raced on a kid, the key-set endpoint is fetched at
\* most once for that kid apart from fetches that failed.
C8_OneFetchPerKid ==
  \A k \in Kids : ~raced[k] => fetched[k] - failed[k] <= 1

\* the characters of the presented value after the leading prefix
AfterPrefix(t, p) == SubSeq(t, Len(p) + 1, Len(t))
IsSuffix(u, s) ==
  Len(u) <= Len(s) /\ SubSeq(s, Len(s) - Len(u) + 1, Len(s)) = u

\* C9: with a non-empty prefix that the token starts with, the result is
\* the token without that leading prefix and one following separator, left
\* trimmed; otherwise the token is unchanged; nothing after the leading
\* prefix is ever deleted, with or without a separator.
C9_StripLeadingOnly ==
  \A r \in Req :
    (Done(r) /\ Has(req[r].log, "stripPrefix")) =>
      LET t == Presented(r).value
          p == config.jwtHeaderValuePrefix
          out == req[r].token
      IN /\ (p = <<>> \/ ~StartsWith(t, p)) => out = t
         /\ (p # <<>> /\ StartsWith(t, p \o <<" ">>))
              => out = TrimStart(SubSeq(t, Len(p) + 2, Len(t)))
         /\ (p # <<>> /\ StartsWith(t, p))
              => IsSuffix(TrimStart(AfterPrefix(t, p)), out)

\* C10: every failure while handling a request ends in a rejection and no
\* exception leaves the middleware or one of its callbacks.
C10_NoException ==
  \A r \in Req :
    /\ req[r].thrown = "none"
    /\ (Done(r) /\ req[r].nexts = 0) => req[r].reasons # <<>>

\* C11: setup fails and registers no middleware, so that no request is ever
\* handled, when header name and cookie name are both empty or the JWKS URI
\* is empty; otherwise it registers exactly one middleware and succeeds.
C11_SetupValidation ==
  LET bad == \/ config.jwtAuthHeader = "" /\ config.jwtAuthCookie = ""
             \/ config.jwksUri = ""
  IN /\ app # "new" =>
          IF bad THEN app = "failed" /\ middlewares = 0
          ELSE app = "registered" /\ middlewares = 1
     /\ app # "registered" => \A r \in Req : req[r] = Idle

\* setup has failed for a configuration with a header name but no JWKS URI
C11_Witness ==
  app = "failed" /\ config.jwtAuthHeader # "" /\ config.jwksUri = ""

\* the reasons the verify callback gives for an error of jwt.verify
VerifyMessages ==
  {"jwt must be provided", "jwt malformed", "jwt signature is required",
   "secret or public key must be provided",
   "please specify \"none\" in \"algorithms\" to verify unsigned tokens",
   "invalid signature", "jwt expired",
   "jwt issuer invalid. expected: " \o Join(config.jwtIssuer),
   "error in secret or public key callback: fetch failed",
   "error in secret or public key callback: "
     \o "Unable to find a signing key that matches 'k2'"}

InvalidTokenReasons == {"Invalid token: " \o m : m \in VerifyMessages}

IssuerDiffers(j) == Claim(j.payload, "iss") # JStr(config.jwtIssuer)

\* the two tokens differ at most in the value of their issuer claim
SameButIssuer(a, b) ==
  /\ a.kid = b.kid /\ a.signedBy = b.signedBy
  /\ Len(a.payload) = Len(b.payload)
  /\ \A i \in 1..Len(a.payload) :
       /\ a.payload[i][1] = b.payload[i][1]
       /\ a.payload[i][1] # "iss" => a.payload[i][2] = b.payload[i][2]

\* with no expected issuer, requests whose tokens differ only in the issuer
\* claim and get the same answer from the key set end the same way
IssuerIgnored ==
  config.jwtIssuer = <<>> =>
    \A r, q \in Req :
      (/\ Done(r) /\ Done(q) /\ ~req[r].in.exempt /\ ~req[q].in.exempt
       /\ IsJwt(r) /\ IsJwt(q) /\ SameButIssuer(JwtOf(r), JwtOf(q))
       /\ req[r].fetch = req[q].fetch)
        => /\ req[r].reasons = req[q].reasons
           /\ req[r].nexts = req[q].nexts
           /\ req[r].thrown = req[q].thrown

\* C12 as stated: with an expected issuer, every token whose issuer claim
\* differs is rejected with a reason starting with "Invalid token: "; with
\* none, the issuer claim has no influence.
C12_IssuerEnforced ==
  /\ config.jwtIssuer # <<>> =>
       \A r \in Req :
         (Done(r) /\ ~req[r].in.exempt /\ IsJwt(r) /\ IssuerDiffers(JwtOf(r)))
           => /\ req[r].nexts = 0
              /\ req[r].reasons # <<>>
              /\ \A i \in 1..Len(req[r].reasons) :
                   req[r].reasons[i] \in InvalidTokenReasons
  /\ IssuerIgnored

\* C12 amended: with an expected issuer, every token whose issuer claim
\* differs is rejected; the reasons start with "Invalid token: " when the
\* token header has a kid and the reason is "No JWT key found" when it has
\* none; with no expected issuer, the issuer claim has no influence.
C12_IssuerEnforcedWithKid ==
  /\ config.jwtIssuer # <<>> =>
       \A r \in Req :
         (Done(r) /\ ~req[r].in.exempt /\ IsJwt(r) /\ IssuerDiffers(JwtOf(r)))
           => /\ req[r].nexts = 0
              /\ req[r].reasons # <<>>
              /\ IF JwtOf(r).kid = ""
                 THEN req[r].reasons = <<"No JWT key found">>
                 ELSE \A i \in 1..Len(req[r].reasons) :
                        req[r].reasons[i] \in InvalidTokenReasons
  /\ IssuerIgnored

\* a correctly signed, unexpired token of another issuer whose key was
\* delivered is rejected for its issuer
C12_Witness ==
  \E r \in Req :
    /\ Done(r) /\ req[r].token = <<"jIssuer">>
    /\ Has(req[r].log, "keyDelivered") /\ ~Has(req[r].log, "keyError")
    /\ req[r].reasons = <<"Invalid token: jwt issuer invalid. expected: i">>

Outcome(reasons, nexts, thrown) ==
  [reasons |-> reasons, nexts |-> nexts, thrown |-> thrown]

\* what a request with these inputs and this answer of the key set gets
\* when it is the only request the application ever handles
Alone(in, fetch) ==
  LET tok == IF config.jwtAuthHeader = "" THEN in.cookie ELSE in.header
      token == StripPrefix(tok.value, config.jwtHeaderValuePrefix)
      kid == JwtTable[token[1]].kid
      error == IF fetch = "failed" THEN "fetch failed"
               ELSE IF kid \notin DOMAIN JwksKeys
                    THEN "Unable to find a signing key that matches '"
                           \o kid \o "'"
                    ELSE ""
      st == GetKeyCallback(config,
              [Idle EXCEPT !.token = token,
                           !.options = JwtVerifyOptions(config)],
              error, IF error = "" THEN JwksKeys[kid] ELSE "", now)
  IN IF in.exempt THEN Outcome(<<>>, 1, "none")
     ELSE IF ~tok.present \/ tok.value = <<>>
          THEN Outcome(<<"Missing token">>, 0, "none")
     ELSE IF VerifyDecode(token) # ""
          THEN Outcome(<<"Invalid token: " \o VerifyDecode(token)>>, 0, "none")
     ELSE IF kid = "" THEN Outcome(<<"No JWT key found">>, 0, "sync")
     ELSE IF fetch = "none" THEN Outcome(<<>>, 0, "none")
     ELSE Outcome(st.reasons, st.nexts, st.thrown)

\* C13: however the steps of the requests in flight interleave, each request
\* ends as it would if it were handled alone with the same configuration
\* and the same answer of the key set.
C13_Independent ==
  \A r \in Req :
    Handled(r) =>
      Outcome(req[r].reasons, req[r].nexts, req[r].thrown)
        = Alone(req[r].in, req[r].fetch)

\* two requests whose key fetches overlapped ended differently: the first
\* admitted, the second rejected
C13_Witness ==
  /\ raced["k1"]
  /\ \E r, q \in Req :
       /\ r < q /\ Done(r) /\ Done(q)
       /\ Admitted(r)
       /\ req[q].reasons # <<>> /\ req[q].fetch = "answered"

NonEmptyToken(r) == Presented(r).present /\ Presented(r).value # <<>>
Decided(r) == req[r].nexts + Len(req[r].reasons) >= 1

\* C14: a non-exempt request with a non-empty token has its decision, admit
\* or reject, once its handling has ended, which takes the end of the key
\* fetch when one was started; while the fetch is pending it has none.
C14_DecisionWhenFetchEnds ==
  \A r \in Req :
    (Handled(r) /\ ~req[r].in.exempt /\ NonEmptyToken(r))
      => /\ Done(r) => Decided(r)
         /\ req[r].pc = "fetching" => ~Decided(r)

\* C15: next() is called only for an exempt request or for one whose
\* non-empty token had its key resolved, its signature, expiration and
\* issuer verified and the tenant check passed; never after key resolution
\* reported an error or delivered an undefined key.
C15_NoUnauthenticatedAdmission ==
  \A r \in Req :
    /\ req[r].nexts > 0 =>
         \/ req[r].in.exempt
         \/ /\ NonEmptyToken(r) /\ IsJwt(r)
            /\ ValidJwt(JwtOf(r))
            /\ req[r].fetch = "answered"
            /\ Has(req[r].log, "keyDelivered")
            /\ Has(req[r].log, "isTenantAllowed")
            /\ IsTenantAllowed(config, JwtOf(r).payload) = "true"
    /\ Has(req[r].log, "keyError") => req[r].nexts = 0

\* a request whose key fetch failed has ended without any call of next()
C15_Witness ==
  \E r \in Req :
    /\ Done(r) /\ req[r].fetch = "failed"
    /\ Has(req[r].log, "keyError") /\ Has(req[r].log, "keyDelivered")
    /\ req[r].nexts = 0

Count(log, es) == Cardinality({i \in 1..Len(log) : log[i] \in es})

\* C16: a request gets at most one terminal outcome, one call of next() or
\* one rejection; the key callback and the verify callback run at most once.
C16_OneOutcome ==
  \A r \in Req :
    /\ req[r].nexts + Len(req[r].reasons) <= 1
    /\ Count(req[r].log, {"keyError", "keyDelivered"}) <= 1
    /\ Count(req[r].log, {"verifyCallback"}) <= 1

\* C17: with a header name configured the token comes from the header alone,
\* a missing header is "Missing token" whatever the cookie holds; the cookie
\* is read only when the header name is empty.
C17_SourceSelection ==
  \A r \in Req :
    (Handled(r) /\ ~req[r].in.exempt) =>
      LET src == IF config.jwtAuthHeader # "" THEN req[r].in.header
                 ELSE req[r].in.cookie
      IN /\ (~src.present \/ src.value = <<>>)
              <=> req[r].reasons = <<"Missing token">>
         /\ (Len(src.value) = 1 /\ src.value[1] \in JwtNames)
              => req[r].token = src.value

\* header and cookie name are both configured, the request has no header
\* but a good token in the cookie, and it was rejected as missing
C17_Witness ==
  /\ config.jwtAuthHeader # "" /\ config.jwtAuthCookie # ""
  /\ \E r \in Req :
       /\ Done(r) /\ ~req[r].in.exempt
       /\ ~req[r].in.header.present
       /\ req[r].in.cookie = Value(<<"jGood">>)
       /\ req[r].reasons = <<"Missing token">>

\* the namespace claim is absent or is not a mapping
NoNamespaceMapping(payload) ==
  \A i \in 1..Len(payload) :
    payload[i][1] = config.jwtNamespace => payload[i][2].t # "obj"

\* C18: with the tenant check configured, a verified token whose namespace
\* claim is absent or not a mapping is rejected with "Tenant not allowed",
\* without an exception, whatever tenant key and allowed tenant are.
C18_NonMappingRejected ==
  TenantConfigured =>
    \A r \in Req :
      (Verified(r) /\ NoNamespaceMapping(JwtOf(r).payload))
        => /\ req[r].reasons = <<"Tenant not allowed">>
           /\ req[r].nexts = 0
           /\ req[r].thrown = "none"

====
